---- MODULE Spec2Model ----
(***************************************************************************)
(* mfdread: Mifare Classic dump parser (src/main.c).                       *)
(*                                                                         *)
(* Two state machines over one set of variables:                           *)
(*   Spec       - print_info(): read the input, resolve the geometry, walk *)
(*                sectors x blocks and print one row per block.            *)
(*   SpecDecode - get_access_condition() applied to the blocks of one      *)
(*                sector for access bytes that are valid or have one bit   *)
(*                corrupted.                                               *)
(***************************************************************************)
EXTENDS Integers, Sequences, FiniteSets, TLC

(***************************************************************************)
(* Bounds of the model.                                                    *)
(***************************************************************************)
\* input lengths tried: every recognised length L and L-d, L+d for d <= MaxDelta
MaxDelta == 1

(***************************************************************************)
(* C integer operators on non-negative values, computed bit by bit.        *)
(***************************************************************************)
RECURSIVE BitAnd(_, _)
BitAnd(x, y) ==
    IF x = 0 \/ y = 0 THEN 0
    ELSE IF y % 2 = 0 THEN 2 * BitAnd(x \div 2, y \div 2)
    ELSE (x % 2) + 2 * BitAnd(x \div 2, y \div 2)

\* x | y sets every bit set in x or in y: the bits of both are counted once
BitOr(x, y) == x + y - BitAnd(x, y)

ShiftRight(x, n) == x \div (2 ^ n)

\* an unsigned char is promoted to int before <<: no bit is lost for n <= 2
ShiftLeft(x, n) == x * (2 ^ n)

\* ~x on an unsigned int; the model keeps the low 16 bits, of which the
\* code's & 0x07 reads three
BitNot(x) == 65535 - x

(***************************************************************************)
(* get_access_condition (src/main.c:166-228)                               *)
(* access_bits is the C array access_bits[0..3] as the sequence <<b0..b3>> *)
(***************************************************************************)
\* clusters of 4 blocks instead of 5
ClusterBlock_ClustersOf4(sector, block) ==
    IF sector >= 32 THEN block \div 4 ELSE block

\* lines 169-174: sectors 32..39 use clusters of 5 blocks
ClusterBlock(sector, block) ==
    IF sector >= 32 THEN block \div 5 ELSE block

\* lines 183-185: C10 C20 C30
DirectBits0(ab) ==
    BitOr(BitOr(BitAnd(ShiftRight(ab[2], 2), 4),
                BitAnd(ShiftLeft(ab[3], 1), 2)),
          BitAnd(ShiftRight(ab[3], 4), 1))

\* lines 186-188: /C10 /C20 /C30
InvertedBits0(ab) ==
    BitOr(BitOr(BitAnd(ShiftLeft(ab[1], 2), 4),
                BitAnd(ShiftRight(ab[1], 3), 2)),
          BitAnd(ShiftRight(ab[2], 0), 1))

\* C31 takes the place of C11 and C11 that of C31
DirectBits1_C3First(ab) ==
    BitOr(BitOr(BitAnd(ShiftRight(ab[3], 3), 4),
                BitAnd(ShiftLeft(ab[3], 0), 2)),
          BitAnd(ShiftRight(ab[2], 5), 1))

\* lines 192-194: C11 C21 C31
DirectBits1(ab) ==
    BitOr(BitOr(BitAnd(ShiftRight(ab[2], 3), 4),
                BitAnd(ShiftLeft(ab[3], 0), 2)),
          BitAnd(ShiftRight(ab[3], 5), 1))

\* lines 195-197: /C11 /C21 /C31
InvertedBits1(ab) ==
    BitOr(BitOr(BitAnd(ShiftLeft(ab[1], 1), 4),
                BitAnd(ShiftRight(ab[1], 4), 2)),
          BitAnd(ShiftRight(ab[2], 1), 1))

\* lines 201-203: C12 C22 C32
DirectBits2(ab) ==
    BitOr(BitOr(BitAnd(ShiftRight(ab[2], 4), 4),
                BitAnd(ShiftRight(ab[3], 1), 2)),
          BitAnd(ShiftRight(ab[3], 6), 1))

\* lines 204-206: /C12 /C22 /C32
InvertedBits2(ab) ==
    BitOr(BitOr(BitAnd(ShiftLeft(ab[1], 0), 4),
                BitAnd(ShiftRight(ab[1], 5), 2)),
          BitAnd(ShiftRight(ab[2], 2), 1))

\* C33 read with the shift of the case above
DirectBits3_ShiftOfCase2(ab) ==
    BitOr(BitOr(BitAnd(ShiftRight(ab[2], 5), 4),
                BitAnd(ShiftRight(ab[3], 2), 2)),
          BitAnd(ShiftRight(ab[3], 6), 1))

\* lines 210-212: C13 C23 C33
DirectBits3(ab) ==
    BitOr(BitOr(BitAnd(ShiftRight(ab[2], 5), 4),
                BitAnd(ShiftRight(ab[3], 2), 2)),
          BitAnd(ShiftRight(ab[3], 7), 1))

\* /C13 read with the shift of the case above
InvertedBits3_ShiftOfCase2(ab) ==
    BitOr(BitOr(BitAnd(ShiftLeft(ab[1], 0), 4),
                BitAnd(ShiftRight(ab[1], 6), 2)),
          BitAnd(ShiftRight(ab[2], 3), 1))

\* lines 213-215: /C13 /C23 /C33
InvertedBits3(ab) ==
    BitOr(BitOr(BitAnd(ShiftRight(ab[1], 1), 4),
                BitAnd(ShiftRight(ab[1], 6), 2)),
          BitAnd(ShiftRight(ab[2], 3), 1))

\* the inverted bits are compared without being complemented
CheckedBits_NoComplement(bits, inverted) ==
    IF bits # BitAnd(inverted, 7) THEN -1 ELSE bits

\* lines 222-227: the redundancy check and the return value
CheckedBits(bits, inverted) ==
    IF bits # BitAnd(BitNot(inverted), 7) THEN -1 ELSE bits

\* lines 166-228; the switch of line 180 picks the case of the reduced block
get_access_condition(sector, block, access_bits) ==
    LET blk == ClusterBlock(sector, block)
    IN  CASE blk = 0 -> CheckedBits(DirectBits0(access_bits), InvertedBits0(access_bits))
          [] blk = 1 -> CheckedBits(DirectBits1(access_bits), InvertedBits1(access_bits))
          [] blk = 2 -> CheckedBits(DirectBits2(access_bits), InvertedBits2(access_bits))
          [] blk = 3 -> CheckedBits(DirectBits3(access_bits), InvertedBits3(access_bits))
          [] OTHER -> -1

(***************************************************************************)
(* State.                                                                  *)
(***************************************************************************)
VARIABLES
    \* print_info and its caller
    force_1k,      \* static bool force_1k (line 71), set by option -1 (line 452)
    file,          \* the input stream's content: [len, base, hot, hotval]
    pc,            \* position in print_info: "start", "loop", "done"
    nread,         \* what fread returned (line 241), before any override
    data_size,     \* unsigned data_size (lines 235, 241-246)
    sectors,       \* int sectors (lines 238, 248-266)
    sector,        \* loop variable of line 291
    block,         \* loop variable of line 319
    rows,          \* the block rows written to stdout by line 407, in order
    status,        \* print_info's return value, -1 while it has not returned
    max_read,      \* greatest index of data[] read so far, -1 if none
    \* get_access_condition applied on its own
    access_bits,   \* the four access bytes handed to get_access_condition
    orig_bits,     \* access_bits before a bit was corrupted
    corrupted,     \* whether one bit of access_bits has been flipped
    d_sector,      \* sector argument of the calls made
    d_ret,         \* block |-> value returned, for the blocks of d_sector
    d_pc           \* "ready" or "decoded"

report_vars == <<force_1k, file, pc, nread, data_size, sectors, sector, block,
                 rows, status, max_read>>
decode_vars == <<access_bits, orig_bits, corrupted, d_sector, d_ret, d_pc>>
vars == <<report_vars, decode_vars>>

Min(a, b) == IF a < b THEN a ELSE b
Max(a, b) == IF a > b THEN a ELSE b

(***************************************************************************)
(* Tables (src/main.c:72-101); C index i is TLA+ index i + 1.              *)
(***************************************************************************)
bit_rep == <<"000", "001", "010", "011", "100", "101", "110", "111">>

permission_trailer ==
    << "- A | A   - | A A",
       "- A | A   A | A A [transport]",
       "- - | A   - | A -",
       "- B | A/B B | - B",
       "- B | A/B - | - B",
       "- - | A/B B | - -",
       "- - | A/B - | - -",
       "- - | A/B - | - -" >>

permission_data ==
    << "A/B | A/B   | A/B | A/B [transport]",
       "A/B |  -    |  -  | A/B [value]",
       "A/B |  -    |  -  |  -  [r/w]",
       "  B |   B   |  -  |  -  [r/w]",
       "A/B |   B   |  -  |  -  [r/w]",
       "  B |  -    |  -  |  -  [r/w]",
       "A/B |   B   |   B | A/B [value]",
       " -  |  -    |  -  |  -  [r/w]" >>

empty_string == ""

EXIT_SUCCESS == 0
EXIT_FAILURE == 1

\* sizeof(data), line 236
DataBufSize == 4097

(***************************************************************************)
(* Inputs of print_info.                                                   *)
(***************************************************************************)
\* access bytes written into the input: the transport configuration, zeroes,
\* the transport configuration with /C11 flipped, and consistent encodings
\* of the conditions 4, 6, 3, 5 and 2, 7, 1, 2 for the slots 0, 1, 2, 3
AccVals ==
    << <<255, 7, 128, 105>>,
       <<0, 0, 0, 0>>,
       <<253, 7, 128, 105>>,
       <<148, 179, 198, 0>>,
       <<77, 41, 107, 0>> >>

\* 16-byte blocks of the input that may carry access bytes of their own:
\* the trailers of sectors 0, 2, 32 and 39 and a data block of sector 2
HotBlocks == {3, 9, 11, 143, 255}

RecognisedLengths == {320, 1024, 2048, 4096}

Lengths ==
    {0} \cup { l + d : l \in RecognisedLengths, d \in 0..MaxDelta }
        \cup { l - d : l \in RecognisedLengths, d \in 0..MaxDelta }

Files ==
    [ len : Lengths, base : 1..Len(AccVals), hot : HotBlocks,
      hotval : 1..Len(AccVals) ]

\* byte i of the input (i < file.len): bytes 6..9 of every 16-byte block hold
\* access bytes (those of block file.hot differ), every other byte is 0
FileByte(i) ==
    LET j == i \div 16
        o == i % 16
    IN  IF o \in 6..9
        THEN AccVals[IF j = file.hot THEN file.hotval ELSE file.base][o - 5]
        ELSE 0

(***************************************************************************)
(* print_info (src/main.c:233-416)                                         *)
(***************************************************************************)
\* lines 240-241: data[] is zeroed, then fread fills its first nread bytes
DataAt(i) == IF i < nread THEN FileByte(i) ELSE 0

\* line 241: fread returns at most sizeof(data) bytes
FreadCount(len) == Min(len, DataBufSize)

\* lines 243-246
EffectiveSize(forced, n) == IF forced THEN 1024 ELSE n

\* a 2048-byte dump resolved as a 1024-byte one
ResolveSectors_2kAs1k(size) ==
    CASE size = 320  -> 5
      [] size = 1024 -> 16
      [] size = 2048 -> 16
      [] size = 4096 -> 32 + 8
      [] OTHER -> 0

\* lines 248-266: the switch; 0 stands for the default branch, which leaves
\* sectors at its initial 0 and returns EXIT_FAILURE
ResolveSectors(size) ==
    CASE size = 320  -> 5
      [] size = 1024 -> 16
      [] size = 2048 -> 32
      [] size = 4096 -> 32 + 8
      [] OTHER -> 0

\* lines 298, 303, 310
BlockSize == 16

\* lines 302, 309
SectorBlocks(s) == IF s < 32 THEN 4 ELSE 16

\* lines 304, 311
SectorSize(s) == BlockSize * SectorBlocks(s)

\* extended sectors laid out from the start of the dump
SectorStart_NoExtendedBase(s) ==
    IF s < 32 THEN s * SectorSize(s)
    ELSE (s - 32) * SectorSize(s)

\* lines 305, 312
SectorStart(s) ==
    IF s < 32 THEN s * SectorSize(s)
    ELSE 2048 + (s - 32) * SectorSize(s)

\* line 314: keyA = &data[...]; the trailer block starts there
TrailerStart(s) == SectorStart(s) + SectorSize(s) - BlockSize + 0

\* line 316: access_bits = &data[sector_start + sector_size - block_size + 6]
SectorAccessBits(s) ==
    LET at == SectorStart(s) + SectorSize(s) - BlockSize + 6
    IN  <<DataAt(at), DataAt(at + 1), DataAt(at + 2), DataAt(at + 3)>>

\* line 322
BlockStart(s, b) == SectorStart(s) + b * BlockSize

\* lines 332-339
StrSector(s, b) == IF b = 1 THEN ToString(s) ELSE empty_string

\* the manufacturer block is recognised before the condition is validated
AccessText_ManufacturerFirst(s, b, blocks, access_condition) ==
    IF b = 0 /\ s = 0
    THEN <<"000", "-">>
    ELSE IF access_condition < 0 \/ access_condition > 7
    THEN <<"ERR", empty_string>>
    ELSE IF b = blocks - 1
    THEN <<bit_rep[access_condition + 1], permission_trailer[access_condition + 1]>>
    ELSE <<bit_rep[access_condition + 1], permission_data[access_condition + 1]>>

\* an invalid condition aborts nothing but is shown as condition 0
AccessText_InvalidAsZero(s, b, blocks, access_condition) ==
    IF access_condition < 0 \/ access_condition > 7
    THEN <<"000", permission_data[1]>>
    ELSE IF b = 0 /\ s = 0
    THEN <<bit_rep[access_condition + 1], "-">>
    ELSE IF b = blocks - 1
    THEN <<bit_rep[access_condition + 1], permission_trailer[access_condition + 1]>>
    ELSE <<bit_rep[access_condition + 1], permission_data[access_condition + 1]>>

\* lines 376-405: <<str_access_bits (without colour codes), str_permissions>>
AccessText(s, b, blocks, access_condition) ==
    IF access_condition < 0 \/ access_condition > 7
    THEN <<"ERR", empty_string>>
    ELSE IF b = 0 /\ s = 0
    THEN <<bit_rep[access_condition + 1], "-">>
    ELSE IF b = blocks - 1
    THEN <<bit_rep[access_condition + 1], permission_trailer[access_condition + 1]>>
    ELSE <<bit_rep[access_condition + 1], permission_data[access_condition + 1]>>

\* greatest index of data[] read while printing the row of block b
\* (line 325 reads access_bits[0..2]; lines 349-364 the whole trailer;
\*  line 372 the block's 16 bytes)
RowMaxRead(s, b) ==
    IF b = SectorBlocks(s) - 1
    THEN TrailerStart(s) + 10 + 5
    ELSE Max(BlockStart(s, b) + BlockSize - 1, TrailerStart(s) + 6 + 2)

\* the row of line 407
Row(s, b) ==
    LET access_condition == get_access_condition(s, b, SectorAccessBits(s))
        text == AccessText(s, b, SectorBlocks(s), access_condition)
    IN  [ sector |-> s,
          block |-> b,
          str_sector |-> StrSector(s, b),
          block_start |-> BlockStart(s, b),
          access_condition |-> access_condition,
          str_access_bits |-> text[1],
          str_permissions |-> text[2] ]

DecodeIdle ==
    /\ access_bits = <<0, 0, 0, 0>>
    /\ orig_bits = <<0, 0, 0, 0>>
    /\ corrupted = FALSE
    /\ d_sector = 0
    /\ d_ret = <<>>
    /\ d_pc = "off"

Init ==
    /\ force_1k \in BOOLEAN
    /\ file \in Files
    /\ pc = "start"
    /\ nread = 0
    /\ data_size = 0
    /\ sectors = 0
    /\ sector = 0
    /\ block = 0
    /\ rows = <<>>
    /\ status = -1
    /\ max_read = -1
    /\ DecodeIdle

\* lines 240-290: read the input, resolve the geometry, print the header
ReadInput ==
    /\ pc = "start"
    /\ nread' = FreadCount(file.len)
    /\ data_size' = EffectiveSize(force_1k, nread')
    /\ sectors' = ResolveSectors(data_size')
    /\ IF sectors' = 0
       THEN /\ status' = EXIT_FAILURE
            /\ pc' = "done"
            /\ max_read' = max_read
       ELSE /\ status' = status
            /\ pc' = "loop"
            /\ max_read' = 7                 \* lines 280-283 read data[0..7]
    /\ UNCHANGED <<force_1k, file, sector, block, rows, decode_vars>>

\* lines 291-412: one iteration of the inner loop
EmitRow ==
    /\ pc = "loop"
    /\ sector < sectors
    /\ rows' = Append(rows, Row(sector, block))
    /\ max_read' = Max(max_read, RowMaxRead(sector, block))
    /\ IF block + 1 < SectorBlocks(sector)
       THEN /\ block' = block + 1
            /\ sector' = sector
       ELSE /\ block' = 0
            /\ sector' = sector + 1
    /\ UNCHANGED <<force_1k, file, pc, nread, data_size, sectors, status,
                   decode_vars>>

\* lines 413-415: the outer loop is over
Finish ==
    /\ pc = "loop"
    /\ sector >= sectors
    /\ status' = EXIT_SUCCESS
    /\ pc' = "done"
    /\ UNCHANGED <<force_1k, file, nread, data_size, sectors, sector, block,
                   rows, max_read, decode_vars>>

Next == ReadInput \/ EmitRow \/ Finish

Spec == Init /\ [][Next]_vars

(***************************************************************************)
(* get_access_condition on its own: SpecDecode.                            *)
(***************************************************************************)
\* access bytes 0..2 that hold the nibbles c1, c2, c3 (bit k: block slot k)
\* and their complements where the card's layout puts them
ConsistentBytes(c1, c2, c3) ==
    << (15 - c2) * 16 + (15 - c1), c1 * 16 + (15 - c3), c3 * 16 + c2 >>

\* the access bytes with bit i (0..31; bit i % 8 of byte i \div 8) flipped
FlipBit(ab, i) ==
    LET n == (i \div 8) + 1
        w == 2 ^ (i % 8)
    IN  [ab EXCEPT ![n] = IF (ab[n] \div w) % 2 = 1 THEN ab[n] - w ELSE ab[n] + w]

\* the sector arguments tried: the last standard and the first extended sector
DecodeSectors == {31, 32}

ReportIdle ==
    /\ force_1k = FALSE
    /\ file = [len |-> 0, base |-> 1, hot |-> 3, hotval |-> 1]
    /\ pc = "off"
    /\ nread = 0
    /\ data_size = 0
    /\ sectors = 0
    /\ sector = 0
    /\ block = 0
    /\ rows = <<>>
    /\ status = -1
    /\ max_read = -1

InitDecode ==
    /\ \E c1 \in 0..15, c2 \in 0..15, c3 \in 0..15 :
          access_bits = ConsistentBytes(c1, c2, c3) \o <<0>>
    /\ orig_bits = access_bits
    /\ corrupted = FALSE
    /\ d_sector = 0
    /\ d_ret = <<>>
    /\ d_pc = "ready"
    /\ ReportIdle

\* one bit of the four access bytes is flipped, once
Corrupt(i) ==
    /\ ~corrupted
    /\ d_pc = "ready"
    /\ access_bits' = FlipBit(access_bits, i)
    /\ corrupted' = TRUE
    /\ UNCHANGED <<orig_bits, d_sector, d_ret, d_pc, report_vars>>

\* the block arguments tried: every block of a standard sector, the first and
\* the last block of every cluster of an extended sector
DecodeBlocks(s) == IF s < 32 THEN 0..3 ELSE {0, 4, 5, 9, 10, 14, 15}

\* get_access_condition is called for blocks of sector s
DecodeSector(s) ==
    /\ d_pc = "ready"
    /\ d_sector' = s
    /\ d_ret' = [b \in DecodeBlocks(s) |->
                    get_access_condition(s, b, access_bits)]
    /\ d_pc' = "decoded"
    /\ UNCHANGED <<access_bits, orig_bits, corrupted, report_vars>>

NextDecode ==
    \/ \E i \in 0..31 : Corrupt(i)
    \/ \E s \in DecodeSectors : DecodeSector(s)

SpecDecode == InitDecode /\ [][NextDecode]_vars

(***************************************************************************)
(* The card's layout of the access bytes, stated by bit position:          *)
(*   byte 0: /C2_3 /C2_2 /C2_1 /C2_0 /C1_3 /C1_2 /C1_1 /C1_0               *)
(*   byte 1:  C1_3  C1_2  C1_1  C1_0 /C3_3 /C3_2 /C3_1 /C3_0               *)
(*   byte 2:  C3_3  C3_2  C3_1  C3_0  C2_3  C2_2  C2_1  C2_0               *)
(* The claims below are stated with these, not with the code's shifts.     *)
(***************************************************************************)
Bit(x, i) == (x \div (2 ^ i)) % 2

RefC1(k, ab) == Bit(ab[2], 4 + k)
RefC2(k, ab) == Bit(ab[3], k)
RefC3(k, ab) == Bit(ab[3], 4 + k)
RefNotC1(k, ab) == Bit(ab[1], k)
RefNotC2(k, ab) == Bit(ab[1], 4 + k)
RefNotC3(k, ab) == Bit(ab[2], k)

\* the slot's direct bits and inverted bits as 3-bit values, C1 first
RefDirect(k, ab) == 4 * RefC1(k, ab) + 2 * RefC2(k, ab) + RefC3(k, ab)
RefInverted(k, ab) == 4 * RefNotC1(k, ab) + 2 * RefNotC2(k, ab) + RefNotC3(k, ab)

\* the slot of a block: the block itself, or its cluster of 5 in sectors >= 32
RefSlot(s, b) == IF s < 32 THEN b ELSE b \div 5

\* the blocks of the decoded sector that use slot k
SlotBlocks(k) == { b \in DOMAIN d_ret : RefSlot(d_sector, b) = k }

Decoded == d_pc = "decoded"

\* C2: for every access bytes and slot 0..3 the decoder returns the direct
\* 3-bit value exactly when it equals the complement (masked to 3 bits) of
\* the inverted value, and -1 otherwise; so the result is -1 or in 0..7 and
\* is a function of the first three bytes only (the spare byte varies here).
C2_DecodeIffComplement ==
    Decoded =>
      \A b \in DOMAIN d_ret :
        LET k == RefSlot(d_sector, b)
            direct == RefDirect(k, access_bits)
            inverted == RefInverted(k, access_bits)
        IN  /\ k \in 0..3
            /\ d_ret[b] \in {-1} \cup 0..7
            /\ d_ret[b] = (IF direct = 7 - inverted THEN direct ELSE -1)

\* a decode of access bytes of which one slot fails and another succeeds
C2_Witness ==
    /\ Decoded
    /\ \E b \in DOMAIN d_ret : d_ret[b] = -1
    /\ \E b \in DOMAIN d_ret : d_ret[b] \in 1..7

\* the spare byte was changed and the decode succeeded with a value not 0
C2_SpareWitness ==
    /\ Decoded
    /\ access_bits[4] # 0
    /\ \E b \in DOMAIN d_ret : d_ret[b] \in 1..7

\* whether all four slots of the access bytes ab decode
AllSlotsDecode(ab) ==
    \A k \in 0..3 : get_access_condition(0, k, ab) # -1

FlippedInThreeBytes == SubSeq(access_bits, 1, 3) # SubSeq(orig_bits, 1, 3)

\* C5: when all four slots of the original bytes decode, flipping any one of
\* the 24 bits of the three access bytes makes the decode of some slot fail.
C5_EveryBitSensitive ==
    (Decoded /\ corrupted /\ FlippedInThreeBytes /\ AllSlotsDecode(orig_bits))
       => \E k \in 0..3 : \E b \in SlotBlocks(k) : d_ret[b] = -1

C5_Witness ==
    /\ Decoded /\ corrupted /\ FlippedInThreeBytes
    /\ AllSlotsDecode(orig_bits)
    /\ orig_bits = <<255, 7, 128, 0>>
    /\ access_bits[3] = 0
    /\ d_ret[3] = -1

IsGolden == access_bits = <<255, 7, 128, 0>>

\* C7 (as amended): the access bytes {0xFF, 0x07, 0x80, 0x00} decode for all
\* four slots, to condition 0 for the slots 0, 1 and 2 and to condition 1
\* for slot 3 (the trailer).
C7_GoldenDecodes ==
    (Decoded /\ IsGolden) =>
       /\ \A k \in 0..2 : \A b \in SlotBlocks(k) : d_ret[b] = 0
       /\ \A b \in SlotBlocks(3) : d_ret[b] = 1

C7_Witness ==
    /\ Decoded /\ IsGolden
    /\ d_sector = 32
    /\ d_ret[15] = 1
    /\ d_ret[0] = 0

\* C7 as claimed: the golden access bytes decode to condition 0 for each of
\* the four slots.
C7_AsClaimed ==
    (Decoded /\ IsGolden) =>
       \A k \in 0..3 : \A b \in SlotBlocks(k) : d_ret[b] = 0

(***************************************************************************)
(* Claims about print_info (specification Spec).                           *)
(***************************************************************************)
Done == pc = "done"
Succeeded == Done /\ status = EXIT_SUCCESS
Failed == Done /\ status = EXIT_FAILURE

\* the geometry as the specification states it
RefSectorCount(len) ==
    CASE len = 320 -> 5 [] len = 1024 -> 16 [] len = 2048 -> 32 [] len = 4096 -> 40
RefBlocks(s) == IF s < 32 THEN 4 ELSE 16
RefSectorStart(s) == IF s < 32 THEN 64 * s ELSE 2048 + 256 * (s - 32)

\* the access bytes of sector s's trailer, read from the input itself
RefTrailerAccess(s) ==
    LET t == RefSectorStart(s) + 16 * (RefBlocks(s) - 1)
    IN  <<FileByte(t + 6), FileByte(t + 7), FileByte(t + 8), FileByte(t + 9)>>

\* the <<sector, block>> pairs of the rows printed, in order
RowKeys == [i \in 1..Len(rows) |-> <<rows[i].sector, rows[i].block>>]

\* the <<sector, block>> pairs of n sectors in increasing order
RECURSIVE RefKeys(_)
RefKeys(n) ==
    IF n = 0 THEN <<>>
    ELSE RefKeys(n - 1) \o [b \in 1..RefBlocks(n - 1) |-> <<n - 1, b - 1>>]

\* C1: without force-1024 a dump of 320, 1024, 2048 or 4096 bytes resolves to
\* 5, 16, 32 or 40 sectors (sectors below 32 with 4 blocks, 32..39 with 16);
\* any other length ends with the failure status and no row is ever printed.
C1_GeometryOrInvalidLength ==
    (~force_1k /\ pc # "start") =>
       IF file.len \in RecognisedLengths
       THEN /\ sectors = RefSectorCount(file.len)
            /\ status # EXIT_FAILURE
            /\ Done => RowKeys = RefKeys(RefSectorCount(file.len))
       ELSE /\ Failed
            /\ rows = <<>>

\* a 4096-byte dump was reported with its 40 sectors, the last of 16 blocks
C1_Witness ==
    /\ ~force_1k /\ Succeeded
    /\ file.len = 4096
    /\ sectors = 40
    /\ Len(rows) = 256
    /\ rows[256].sector = 39 /\ rows[256].block = 15

\* a dump one byte too long was refused
C1_WitnessInvalid ==
    /\ ~force_1k /\ Failed /\ file.len = 1025 /\ rows = <<>>

\* the input holds every byte the report covers
DumpComplete == file.len >= data_size

\* whether the redundancy check of slot k of the access bytes ab fails
RefCheckFails(k, ab) ==
    \/ RefC1(k, ab) = RefNotC1(k, ab)
    \/ RefC2(k, ab) = RefNotC2(k, ab)
    \/ RefC3(k, ab) = RefNotC3(k, ab)

IsInvalidRow(r) == r.str_access_bits = "ERR" /\ r.str_permissions = ""

\* C3: a checksum mismatch is local and not fatal: the row of block b of
\* sector s carries the invalid marker and an empty permission text exactly
\* when the check of sector s's own trailer access bytes fails at b's lookup
\* index (b, or b / 5 in an extended sector); every block of every sector
\* still gets its row and the status is success.
C3_MismatchIsLocal ==
    (Succeeded /\ DumpComplete) =>
       /\ Len(rows) = data_size \div 16
       /\ RowKeys = RefKeys(sectors)
       /\ \A i \in 1..Len(rows) :
            LET r == rows[i]
                fails == RefCheckFails(RefSlot(r.sector, r.block),
                                       RefTrailerAccess(r.sector))
            IN  /\ fails => IsInvalidRow(r)
                /\ ~fails => (r.str_access_bits # "ERR" /\ r.str_permissions # "")

\* scenario B: a 320-byte dump whose sector 2 alone has a corrupted slot 1:
\* the one row of sector 2 block 1 is invalid, no other row is
C3_Witness ==
    /\ Succeeded /\ ~force_1k
    /\ file.len = 320 /\ file.base = 1 /\ file.hot = 11 /\ file.hotval = 3
    /\ IsInvalidRow(rows[10])
    /\ \A i \in 1..20 : i # 10 => ~IsInvalidRow(rows[i])

\* C4 as claimed: with force-1024 set, an input of fewer than 1024 bytes ends
\* in an error without any row; an input of 1024 bytes or more is reported as
\* 16 standard sectors of 4 blocks.
C4_AsClaimed ==
    (force_1k /\ pc # "start") =>
       IF file.len < 1024
       THEN rows = <<>> /\ (Done => status = EXIT_FAILURE)
       ELSE /\ sectors = 16
            /\ Done => (status = EXIT_SUCCESS /\ RowKeys = RefKeys(16))

\* C6: the decoder uses slot block / 5 for the blocks of the sectors 32..39
\* and the block index itself below sector 32; the slot of every row printed
\* is in 0..3 (the decoder's default branch is not taken), and the blocks of
\* one cluster carry the same access condition.
C6_ClusterMapping ==
    Succeeded =>
       /\ \A i \in 1..Len(rows) :
            LET r == rows[i]
                k == RefSlot(r.sector, r.block)
            IN  /\ ClusterBlock(r.sector, r.block) \in 0..3
                /\ k \in 0..3
                /\ r.access_condition =
                      get_access_condition(0, k, SectorAccessBits(r.sector))
       /\ \A i \in 1..(Len(rows) - 1) :
            (/\ rows[i].sector = rows[i + 1].sector
             /\ rows[i].sector >= 32
             /\ rows[i].block \div 5 = rows[i + 1].block \div 5)
               => rows[i].access_condition = rows[i + 1].access_condition

\* a 4096-byte dump whose extended sectors encode the conditions 4, 6, 3, 5:
\* sector 32 shows them on its blocks 4, 5, 14 and 15
C6_Witness ==
    /\ Succeeded /\ file.len = 4096 /\ ~force_1k
    /\ rows[128 + 5].sector = 32 /\ rows[128 + 5].block = 4
    /\ rows[128 + 5].access_condition = 4
    /\ rows[128 + 6].access_condition = 6
    /\ rows[128 + 15].access_condition = 3
    /\ rows[128 + 16].access_condition = 5

\* the input is 1024 zero bytes
AllZero1024 ==
    /\ ~force_1k
    /\ file.len = 1024
    /\ file.base = 2
    /\ (file.hotval = 2 \/ file.hot >= 64)

IsManufacturerRow(r) == r.sector = 0 /\ r.block = 0

\* C8 as claimed: the report of 1024 zero bytes has 64 rows and its row of
\* sector 0 block 0 carries the text "-", not the invalid marker; the
\* manufacturer block's text is "-" whatever its access condition is.
C8_AsClaimed ==
    Succeeded =>
       /\ AllZero1024 =>
            /\ RowKeys = RefKeys(16)
            /\ rows[1].str_permissions = "-"
            /\ ~IsInvalidRow(rows[1])
       /\ \A i \in 1..Len(rows) :
            IsManufacturerRow(rows[i]) => rows[i].str_permissions = "-"

\* C8 (as amended): the report of 1024 zero bytes has 16 sectors of 4 blocks
\* (64 rows), every one of them, the row of sector 0 block 0 included, with
\* the invalid marker and an empty permission text, since zero access bytes
\* fail the check; the manufacturer block's text is the fixed "-" for every
\* condition 0..7 that decodes, and empty when the check fails.
C8_ManufacturerRow ==
    Succeeded =>
       /\ AllZero1024 =>
            /\ RowKeys = RefKeys(16)
            /\ Len(rows) = 64
            /\ \A i \in 1..Len(rows) : IsInvalidRow(rows[i])
       /\ \A i \in 1..Len(rows) :
            IsManufacturerRow(rows[i]) =>
               /\ i = 1
               /\ rows[i].access_condition \in 0..7
                     => (rows[i].str_permissions = "-"
                         /\ rows[i].str_access_bits = bit_rep[rows[i].access_condition + 1])
               /\ rows[i].access_condition = -1 => IsInvalidRow(rows[i])

\* the report of 1024 zero bytes is complete
C8_Witness ==
    /\ Succeeded /\ AllZero1024
    /\ Len(rows) = 64
    /\ IsInvalidRow(rows[1])

\* a manufacturer block with condition 4 shows "-"
C8_WitnessDecoded ==
    /\ Succeeded
    /\ rows[1].access_condition = 4
    /\ rows[1].str_permissions = "-"

\* C10 as claimed: the condition of a row is C3 C2 C1, C3 being the most
\* significant bit.
C10_AsClaimed ==
    Succeeded =>
       \A i \in 1..Len(rows) :
          LET r == rows[i]
              k == RefSlot(r.sector, r.block)
              ab == SectorAccessBits(r.sector)
          IN  r.access_condition \in 0..7 =>
                 r.access_condition = 4 * RefC3(k, ab) + 2 * RefC2(k, ab) + RefC1(k, ab)

\* C10 (as amended): the condition of a row is C1 C2 C3, C1 (bit 4+k of
\* access byte 1) being the most significant bit (weight 4), C2 (bit k of
\* access byte 2) of weight 2 and C3 (bit 4+k of access byte 2) of weight 1;
\* whenever the slot's redundancy check passes, and that value indexes
\* bit_rep and the permission table of the block's role.
C10_BitOrder ==
    Succeeded =>
       \A i \in 1..Len(rows) :
          LET r == rows[i]
              k == RefSlot(r.sector, r.block)
              ab == SectorAccessBits(r.sector)
              value == 4 * RefC1(k, ab) + 2 * RefC2(k, ab) + RefC3(k, ab)
          IN  (r.access_condition \in 0..7 \/ ~RefCheckFails(k, ab)) =>
                 /\ r.access_condition = value
                 /\ r.str_access_bits = bit_rep[value + 1]
                 /\ r.str_permissions =
                      (IF IsManufacturerRow(r) THEN "-"
                       ELSE IF r.block = RefBlocks(r.sector) - 1
                       THEN permission_trailer[value + 1]
                       ELSE permission_data[value + 1])

\* the transport configuration: the trailer of sector 1 has condition 1
\* (C3 alone set), a data block of a sector encoding 4, 6, 3, 5 has 6
C10_Witness ==
    /\ Succeeded
    /\ file.base = 4 /\ file.hot = 3 /\ file.hotval = 1
    /\ rows[4].access_condition = 1
    /\ rows[4].str_permissions = "- A | A   A | A A [transport]"
    /\ rows[6].access_condition = 6
    /\ rows[6].str_permissions = "A/B |   B   |   B | A/B [value]"

LexLess(a, b) == a[1] < b[1] \/ (a[1] = b[1] /\ a[2] < b[2])

\* what holds of the rows while and after an accepted dump is reported (of
\* the newest row while the loop runs, of all of them at the return)
C9_Tiling ==
    (pc # "start" /\ status # EXIT_FAILURE) =>
       /\ data_size \in RecognisedLengths
       /\ max_read < data_size
       /\ Len(rows) <= data_size \div 16
       /\ \A i \in {Len(rows)} \cup (IF Done THEN 1..Len(rows) ELSE {}) :
            i >= 1 =>
              /\ rows[i].block_start = 16 * (i - 1)
              /\ rows[i].block_start =
                    RefSectorStart(rows[i].sector) + 16 * rows[i].block
              /\ rows[i].block \in 0..(RefBlocks(rows[i].sector) - 1)
              /\ i > 1 => LexLess(<<rows[i - 1].sector, rows[i - 1].block>>,
                                  <<rows[i].sector, rows[i].block>>)
       /\ Done => Len(rows) = data_size \div 16

\* every step of print_info moves it on: out of "start", one row further in
\* the loop, or from the loop to its return; with the rows bounded by L / 16
\* and a step possible wherever it has not returned, it terminates
C9_Progress ==
    \/ pc = "start" /\ pc' \in {"loop", "done"} /\ rows' = rows
    \/ pc = "loop" /\ pc' = "loop" /\ Len(rows') = Len(rows) + 1
                   /\ SubSeq(rows', 1, Len(rows)) = rows
    \/ pc = "loop" /\ pc' = "done" /\ rows' = rows
                   /\ Len(rows) = data_size \div 16

\* C9: for every accepted dump of effective length L the report terminates
\* with exactly L / 16 rows, printed in strictly increasing (sector, block)
\* order, the i-th of them (from 0) being the block at the bytes
\* [16 i, 16 i + 16); no byte at an index >= L is read; standard sectors
\* start at 64 * index, extended sectors at 2048 + 256 * (index - 32).
C9_RowOrderAndTiling ==
    /\ [](pc \in {"start", "loop", "done"} /\ C9_Tiling)
    /\ [][C9_Progress]_vars

\* a 4096-byte dump: the first block of sector 33 is row 144, at byte 2304
C9_Witness ==
    /\ Succeeded /\ data_size = 4096
    /\ Len(rows) = 256
    /\ rows[145].sector = 33 /\ rows[145].block = 0
    /\ rows[145].block_start = 2304
    /\ max_read = 4095

====
